---------------------------- MODULE Spec2Model ----------------------------
(***************************************************************************)
(* Model of the barcade-app time-series reconstruction code                *)
(* (src/app/main.py, src/app/crud.py).                                     *)
(*                                                                         *)
(* Time is counted in whole seconds since 2024-01-01T00:00:00Z, which is   *)
(* a Monday and the first day of a month.  Hours are reported in           *)
(* hundredths (round(x / 3600.0, 2) is an integer number of hundredths),   *)
(* money in hundredths of the currency unit.  Fractional money values      *)
(* (amount * overlap / elapsed) are exact rationals <<num, den>>.          *)
(*                                                                         *)
(* Python's round() rounds the binary float; on a value that is not an     *)
(* exact tie this is the nearest hundredth, which is what Round2 computes. *)
(* On an exact tie Round2 goes to the even neighbour (the documented rule  *)
(* of round()); no property below depends on the direction of a tie.       *)
(***************************************************************************)
EXTENDS Integers, Sequences, FiniteSets, TLC

VARIABLES
    logs,        \* log_entries of the game, in ORDER BY timestamp ASC order
    gameStatus,  \* games.status of the game
    revs,        \* revenue_entries of the game, in insertion order
    location,    \* the locations row with id LocationId
    game,        \* the games row: whether it exists and its location_id
    grid,        \* the other games rows: location_id, x, y and status of each
    users,       \* the users rows: the pin of each
    moves,       \* the move_game requests in progress
    resp         \* the answer to the request in progress, op "none" when
                 \* the client has read it and may send the next request

vars == <<logs, gameStatus, revs, location, game, grid, users, moves, resp>>

\* the followed game with its history and location
historyVars == <<logs, gameStatus, revs, location, game>>

\* the floor plan, the users and the moves in progress
floorVars == <<grid, users, moves>>

----------------------------------------------------------------------------
(* Bounds of the model *)

MaxEvents == 3      \* at most this many log entries
MaxDay    == 3      \* the status timeline spans days 0 .. MaxDay
MaxRevs   == 2      \* at most this many revenue entries
MaxBins   == 14     \* a revenue window seeds at most this many buckets
MaxFloorDay == 41   \* _daterange_floor is taken of days 0 .. MaxFloorDay

(* Program constants *)

Hour == 3600        \* up_sec / 3600.0
Day  == 86400       \* timedelta(days=1)
DefaultTokenValue == 100   \* Column(Float, default=1.0), in hundredths
NoLocationRate == 100      \* "else 1.0" for a game without location
LocationId == 1            \* the id of the one locations row
NoLocationId == 0          \* location_id = None

----------------------------------------------------------------------------
(* Arithmetic helpers *)

Min(a, b) == IF a < b THEN a ELSE b
Max(a, b) == IF a > b THEN a ELSE b
Abs(a)    == IF a < 0 THEN -a ELSE a

SetMax(S) == CHOOSE x \in S : \A y \in S : y <= x
SetMin(S) == CHOOSE x \in S : \A y \in S : x <= y

RECURSIVE GCD(_, _)
GCD(a, b) == IF b = 0 THEN a ELSE GCD(b, a % b)

\* s[lo] + ... + s[hi], by halves
RECURSIVE SumRange(_, _, _)
SumRange(s, lo, hi) ==
    IF lo > hi THEN 0
    ELSE IF lo = hi THEN s[lo]
    ELSE LET mid == (lo + hi) \div 2
         IN  SumRange(s, lo, mid) + SumRange(s, mid + 1, hi)

SeqSum(s) == SumRange(s, 1, Len(s))

\* round(n / d) for n >= 0, d > 0: nearest integer, an exact tie to even
Round2(n, d) ==
    LET q == n \div d
        r == n % d
    IN  IF 2 * r < d THEN q
        ELSE IF 2 * r > d THEN q + 1
        ELSE IF q % 2 = 0 THEN q ELSE q + 1

\* round(sec / 3600.0, 2), in hundredths of an hour
HoursRounded(sec) == Round2(sec * 100, Hour)

\* sorted(keys) as a sequence
SortedSeq(S) ==
    [i \in 1..Cardinality(S) |->
        CHOOSE x \in S : Cardinality({y \in S : y < x}) = i - 1]

----------------------------------------------------------------------------
(* Status events *)

GameStatus == {"working", "needs_maintenance", "out_of_order"}

\* instants at which a log entry can be recorded
EventTimes == {0, 12 * Hour, Day - 20, Day, 2 * Day + 6 * Hour, MaxDay * Day}

\* instants a status query can name as start or end
WindowTimes == {0, Day - 40, Day, Day + 20, MaxDay * Day}

\* RedirectResponse(url="/", status_code=303)
Redirect(name) == [op |-> name, code |-> 303]

\* HTTPException(status_code=404, detail="Game not found") and the
\* "<p>Game not found</p>" answers with status_code=404
NotFound(name) == [op |-> name, code |-> 404]

NoResponse == [op |-> "none", code |-> 0]

\* the games row is gone: "game = ...first()" is None
NoGame == [present |-> FALSE, location_id |-> NoLocationId]

\* a games row with location_id = l
GameAt(l) == [present |-> TRUE, location_id |-> l]

\* requests are sent one at a time, each after the answer to the one before
Idle == resp = NoResponse

LastTs(s) == IF s = <<>> THEN 0 ELSE s[Len(s)].timestamp

LogEntry(t, a) == [timestamp |-> t, action |-> a]

----------------------------------------------------------------------------
(* status_series_api *)

_floor_day(dt) == dt - (dt % Day)

\* the loop "for e in logs: if e.timestamp < start_dt: prev = e else: break"
PrevIndexBroken(ls, start_dt) ==
    LET stop == {i \in 1..Len(ls) : ls[i].timestamp <= start_dt}
    IN  IF stop = {} THEN 0 ELSE SetMax(stop)
PrevIndex(ls, start_dt) ==
    LET stop == {i \in 1..Len(ls) : ~(ls[i].timestamp < start_dt)}
    IN  IF stop = {} THEN Len(ls) ELSE SetMin(stop) - 1

DefaultStatusBroken == "out_of_order"
DefaultStatus == "working"

\* current_status = prev.action if prev else "working"
StartStatus(ls, start_dt) ==
    LET p == PrevIndex(ls, start_dt)
    IN  IF p = 0 THEN DefaultStatus ELSE ls[p].action

\* the seeded day buckets: _floor_day(start_dt), + 1 day, ... while < end_dt
SeedDaysBroken(start_dt, end_dt) ==
    {d \in {_floor_day(start_dt) + k * Day : k \in 0..(MaxDay + 2)} : d <= end_dt}
SeedDays(start_dt, end_dt) ==
    {d \in {_floor_day(start_dt) + k * Day : k \in 0..(MaxDay + 2)} : d < end_dt}

\* [x for x in logs if start_dt <= x.timestamp <= end_dt]
InWindowBroken(ls, start_dt, end_dt) ==
    SelectSeq(ls, LAMBDA x : start_dt < x.timestamp /\ x.timestamp <= end_dt)
InWindow(ls, start_dt, end_dt) ==
    SelectSeq(ls, LAMBDA x : start_dt <= x.timestamp /\ x.timestamp <= end_dt)

IsDownBroken(status) == status # "working"
IsDown(status) == status = "out_of_order"

\* One pass of "while d < seg_end": days[_floor_day(d)] += overlap of
\* [seg_start, seg_end) with [d, d + 1 day).  acc is [days, keyError].
DaySliceBroken(seg_start, seg_end, d) == seg_end - Max(seg_start, d)
DaySlice(seg_start, seg_end, d) ==
    Min(seg_end, d + Day) - Max(seg_start, d)

RECURSIVE AddDowntime(_, _, _, _)
AddDowntime(acc, seg_start, seg_end, d) ==
    IF ~(d < seg_end) THEN acc
    ELSE LET k == _floor_day(d)
             nxt == IF k \in DOMAIN acc.days
                    THEN [acc EXCEPT !.days[k] = @ + DaySlice(seg_start, seg_end, d)]
                    ELSE [acc EXCEPT !.keyError = TRUE]
         IN  AddDowntime(nxt, seg_start, seg_end, d + Day)

\* "cursor = seg_end" at the end of the loop body
NextCursorBroken(seg_start, seg_end) == seg_start
NextCursor(seg_start, seg_end) == seg_end

\* the loop over the in-window events; st is [days, keyError, cursor, status]
RECURSIVE WalkSegments(_, _)
WalkSegments(st, evs) ==
    IF evs = <<>> THEN st
    ELSE LET e == Head(evs)
             seg_start == st.cursor
             seg_end == e.timestamp
             acc == IF seg_end > seg_start /\ IsDown(st.status)
                    THEN AddDowntime([days |-> st.days, keyError |-> st.keyError],
                                     seg_start, seg_end, _floor_day(seg_start))
                    ELSE [days |-> st.days, keyError |-> st.keyError]
         IN  WalkSegments([days |-> acc.days, keyError |-> acc.keyError,
                           cursor |-> NextCursor(seg_start, seg_end),
                           status |-> e.action],
                          Tail(evs))

\* the tail segment [cursor, end_dt)
TailSegmentBroken(st, end_dt) == [days |-> st.days, keyError |-> st.keyError]
TailSegment(st, end_dt) ==
    IF st.cursor < end_dt /\ IsDown(st.status)
    THEN AddDowntime([days |-> st.days, keyError |-> st.keyError],
                     st.cursor, end_dt, _floor_day(st.cursor))
    ELSE [days |-> st.days, keyError |-> st.keyError]

\* window_seconds of the bucket starting at k
WindowSecondsBroken(k, start_dt, end_dt) ==
    Max(Min(Min(k + Day, end_dt), end_dt) - k, 0)
WindowSeconds(k, start_dt, end_dt) ==
    LET day_end == Min(k + Day, end_dt)
        window_start == Max(k, start_dt)
        window_end == Min(day_end, end_dt)
    IN  Max(window_end - window_start, 0)

\* one element of "daily"
DailyRow(k, down_sec, start_dt, end_dt) ==
    LET window_seconds == WindowSeconds(k, start_dt, end_dt)
        up_sec == Max(window_seconds - down_sec, 0)
    IN  [t |-> k,
         window_seconds |-> window_seconds,
         down_sec |-> down_sec,
         up_sec |-> up_sec,
         uptime_hours |-> HoursRounded(up_sec),
         downtime_hours |-> HoursRounded(down_sec)]

\* "if start_dt >= end_dt: return" the empty answer
EmptyStatusWindow(start_dt, end_dt) == start_dt >= end_dt

\* downtime_seconds = sum(v for v in days.values())
TotalDowntimeBroken(days) ==
    LET keys == SortedSeq(DOMAIN days)
    IN  SeqSum([i \in 1..(Len(keys) - 1) |-> days[keys[i]]])
TotalDowntime(days) ==
    LET keys == SortedSeq(DOMAIN days)
    IN  SeqSum([i \in 1..Len(keys) |-> days[keys[i]]])

\* the value status_series_api returns for an existing game
StatusSeries(ls, start_dt, end_dt) ==
    IF EmptyStatusWindow(start_dt, end_dt)
    THEN [op |-> "status_series", code |-> 200, start |-> start_dt, end |-> end_dt,
          start_status |-> "none", keyError |-> FALSE, daily |-> <<>>,
          totals |-> [uptime_hours |-> 0, downtime_hours |-> 0]]
    ELSE
    LET seeded == [d \in SeedDays(start_dt, end_dt) |-> 0]
        st0 == [days |-> seeded, keyError |-> FALSE,
                cursor |-> start_dt, status |-> StartStatus(ls, start_dt)]
        st1 == WalkSegments(st0, InWindow(ls, start_dt, end_dt))
        fin == TailSegment(st1, end_dt)
        keys == SortedSeq(DOMAIN fin.days)
        daily == [i \in 1..Len(keys) |->
                     DailyRow(keys[i], fin.days[keys[i]], start_dt, end_dt)]
        total_seconds == end_dt - start_dt
        downtime_seconds == TotalDowntime(fin.days)
        uptime_seconds == Max(total_seconds - downtime_seconds, 0)
    IN  [op |-> "status_series", code |-> IF fin.keyError THEN 500 ELSE 200,
         start |-> start_dt, end |-> end_dt,
         start_status |-> st0.status, keyError |-> fin.keyError,
         daily |-> daily,
         totals |-> [uptime_hours |-> HoursRounded(uptime_seconds),
                     downtime_hours |-> HoursRounded(downtime_seconds)]]

----------------------------------------------------------------------------
(* Exact fractions [n, d] with n >= 0, d > 0, in lowest terms *)

Rat(n, d) == LET g == GCD(n, d) IN [n |-> n \div g, d |-> d \div g]

Zero == [n |-> 0, d |-> 1]

RatAdd(a, b) ==
    LET l == (a.d \div GCD(a.d, b.d)) * b.d
    IN  Rat(a.n * (l \div a.d) + b.n * (l \div b.d), l)

\* a * p / q, cancelling before multiplying
RatScale(a, p, q) ==
    LET g1 == GCD(a.n, q)
        g2 == GCD(p, a.d)
    IN  Rat((a.n \div g1) * (p \div g2), (a.d \div g2) * (q \div g1))

RatLeq(a, b) == a.n * b.d <= b.n * a.d

RECURSIVE RatSum(_)
RatSum(s) == IF s = <<>> THEN Zero ELSE RatAdd(Head(s), RatSum(Tail(s)))

----------------------------------------------------------------------------
(* Revenue events *)

Granularities == {"daily", "weekly", "monthly"}

\* instants at which a collection can be dated (collected_at): Mondays
\* 01-22, 01-29 and 02-05, and Saturday 02-10
RevTimes == {21 * Day, 28 * Day, 35 * Day, 40 * Day}

\* instants a revenue query can name as start or end: Monday 01-29,
\* Wednesday 01-31 at noon, Monday 02-05 and Sunday 02-11
RevWindowTimes == {28 * Day, 30 * Day + 12 * Hour, 35 * Day, 41 * Day}

\* amounts of a collection, in hundredths
Amounts == {1000, 7000}

\* (amount, is_token) of a collection: 10.00 or 70.00 in cash, or 10 tokens
Collections == {c \in Amounts \X BOOLEAN : c[2] => c[1] = SetMin(Amounts)}

\* token_value a location can be given, in hundredths
TokenValues == {25, 100}

\* first days of the months of 2024 (a leap year), as days since 01-01
MonthStarts == {0, 31, 60, 91, 121}

NoTime == -1

RevenueEntry(t, a, k) == [timestamp |-> t, amount |-> a, is_token |-> k]

\* ORDER BY timestamp ASC over the rows in insertion order (equal
\* timestamps keep their insertion order)
RECURSIVE OrderByTs(_)
OrderByTs(s) ==
    IF s = <<>> THEN <<>>
    ELSE LET e == s[Len(s)]
             rest == OrderByTs(SubSeq(s, 1, Len(s) - 1))
             k == Cardinality({i \in 1..Len(rest) : rest[i].timestamp <= e.timestamp})
         IN  SubSeq(rest, 1, k) \o <<e>> \o SubSeq(rest, k + 1, Len(rest))

----------------------------------------------------------------------------
(* build_revenue_series *)

\* (amount * token_value) if is_token else amount
_to_cash(amount, is_token, token_value) ==
    IF is_token THEN Rat(amount * token_value, 100) ELSE Rat(amount, 1)

_daterange_floorBroken(dt, granularity) ==
    IF granularity = "daily" THEN dt - (dt % Day)
    ELSE IF granularity = "weekly"
         THEN LET d0 == dt - (dt % Day)
                  weekday == ((d0 \div Day) + 1) % 7
              IN  d0 - weekday * Day
    ELSE IF granularity = "monthly"
         THEN Day * SetMax({m \in MonthStarts : m <= dt \div Day})
    ELSE dt
_daterange_floor(dt, granularity) ==
    IF granularity = "daily" THEN dt - (dt % Day)
    ELSE IF granularity = "weekly"
         THEN LET d0 == dt - (dt % Day)
                  weekday == (d0 \div Day) % 7
              IN  d0 - weekday * Day
    ELSE IF granularity = "monthly"
         THEN Day * SetMax({m \in MonthStarts : m <= dt \div Day})
    ELSE dt

_step(granularity) ==
    Day * (IF granularity = "daily" THEN 1
           ELSE IF granularity = "weekly" THEN 7 ELSE 30)

\* "Seed bins": cur = _daterange_floor(start), cur += step while cur < end
SeedBins(start, end, granularity) ==
    {c \in {_daterange_floor(start, granularity) + k * _step(granularity) :
              k \in 0..MaxBins} : c < end}

\* The loop "while bin_cursor < interval_end" for one entry.  The cursor
\* takes the values bin_cursor, + step, ... below interval_end; each value
\* with a non-empty segment adds its share to bins[bins_key] if that key is
\* in bins.  Written per key: the shares of the cursor values keyed to it.
SpreadOverBins(bins, bin_cursor, interval_start, interval_end, amount_cash, denom, granularity) ==
    LET step_td == _step(granularity)
        cursors == {c \in {bin_cursor + j * step_td : j \in 0..MaxBins} :
                      c < interval_end}
        SegStart(c) == Max(interval_start, c)
        SegEnd(c) == Min(interval_end, c + step_td)
        hits == {c \in cursors : SegEnd(c) > SegStart(c)}
        bins_key == [c \in hits |-> _daterange_floor(c, granularity)]
        Keyed(k) == SortedSeq({c \in hits : bins_key[c] = k})
    IN  [k \in DOMAIN bins |->
           LET cs == Keyed(k)
           IN  IF cs = <<>> THEN bins[k]
               ELSE RatAdd(bins[k],
                           RatSum([j \in 1..Len(cs) |->
                                     RatScale(amount_cash,
                                              SegEnd(cs[j]) - SegStart(cs[j]),
                                              denom)]))]

\* the body of "for idx, e in enumerate(entries)" up to "prev_time = curr_time"
AddEntry(bins, prev_time, e, start, end, granularity, token_value) ==
    LET curr_time == e.timestamp
        interval_start == Max(prev_time, start)
        interval_end == Min(curr_time, end)
    IN  IF interval_end > interval_start
        THEN SpreadOverBins(bins, _daterange_floor(interval_start, granularity),
                            interval_start, interval_end,
                            _to_cash(e.amount, e.is_token, token_value),
                            Max(curr_time - prev_time, 1), granularity)
        ELSE bins

\* prev_time while entry i is handled: entries[0]._prev_ts or start for the
\* first entry, the timestamp of the entry before it for the others
PrevTimeBroken(entries, i, prev_ts, start) ==
    LET reached == {j \in 1..(i - 1) : entries[j].timestamp > start}
    IN  IF reached = {} THEN (IF prev_ts = NoTime THEN start ELSE prev_ts)
        ELSE entries[SetMax(reached)].timestamp
PrevTime(entries, i, prev_ts, start) ==
    IF i = 1 THEN (IF prev_ts = NoTime THEN start ELSE prev_ts)
    ELSE entries[i - 1].timestamp

RECURSIVE WalkEntries(_, _, _, _, _, _, _, _)
WalkEntries(bins, i, entries, prev_ts, start, end, granularity, token_value) ==
    IF i > Len(entries) THEN bins
    ELSE WalkEntries(AddEntry(bins, PrevTime(entries, i, prev_ts, start), entries[i],
                              start, end, granularity, token_value),
                     i + 1, entries, prev_ts, start, end, granularity, token_value)

\* the guard "if start >= end: return []"
GuardBroken(start, end) == start > end
Guard(start, end) == start >= end

\* "for k in sorted(bins.keys())": the keys of out, in its order
OutKeysBroken(bins) == SortedSeq({k \in DOMAIN bins : bins[k] # Zero})
OutKeys(bins) == SortedSeq(DOMAIN bins)

\* what build_revenue_series returns (out), with its arguments, the values
\* prev_time had when each entry was handled, and bins
BuildRevenueSeries(entries, prev_ts, start, end, granularity, token_value) ==
    LET empty == Guard(start, end)
        bins == IF empty THEN <<>>
                ELSE WalkEntries([c \in SeedBins(start, end, granularity) |-> Zero],
                                 1, entries, prev_ts, start, end, granularity,
                                 token_value)
        keys == IF empty THEN <<>> ELSE OutKeys(bins)
    IN  [op |-> "build_revenue_series", code |-> 0,
         start |-> start, end |-> end,
         granularity |-> IF empty THEN "daily" ELSE granularity,
         token_value |-> IF empty THEN DefaultTokenValue ELSE token_value,
         entries |-> IF empty THEN <<>> ELSE entries,
         prev_ts |-> IF empty THEN NoTime ELSE prev_ts,
         prev_times |-> IF empty THEN <<>>
                        ELSE [i \in 1..Len(entries) |->
                                PrevTime(entries, i, prev_ts, start)],
         bins |-> bins,
         out |-> [i \in 1..Len(keys) |->
                    [t |-> keys[i], amount |-> Round2(bins[keys[i]].n, bins[keys[i]].d)]]]

----------------------------------------------------------------------------
(* revenue_series_api *)

\* filter(timestamp >= start_dt, timestamp <= end_dt).order_by(timestamp.asc())
InRange(rs, start_dt, end_dt) ==
    SelectSeq(OrderByTs(rs),
              LAMBDA e : e.timestamp >= start_dt /\ e.timestamp <= end_dt)

SeriesRow(e, token_value) ==
    LET cash == _to_cash(e.amount, e.is_token, token_value)
    IN  [t |-> e.timestamp,
         amount |-> Round2(cash.n, cash.d),
         raw_amount |-> e.amount,
         type |-> IF e.is_token THEN "tokens" ELSE "cash"]

RevenueSeries(rs, start_dt, end_dt, token_value) ==
    LET entries == InRange(rs, start_dt, end_dt)
    IN  [op |-> "revenue_series", code |-> 200,
         series |-> [i \in 1..Len(entries) |-> SeriesRow(entries[i], token_value)],
         start |-> start_dt, end |-> end_dt]

----------------------------------------------------------------------------
(* The games row of the requested id *)

\* "game = db.query(Game).filter(Game.id == game_id).first()" and
\* "if not game": the row exists
GameFoundBroken(g) == TRUE
GameFound(g) == g.present

\* token_value = game.location.token_value if game.location else 1.0
TokenValueOfBroken(g, loc) == loc.token_value
TokenValueOf(g, loc) ==
    IF g.location_id = LocationId /\ loc.present
    THEN loc.token_value ELSE NoLocationRate

\* DELETE /settings/games/{game_id}/delete by an admin: the log and revenue
\* entries of the game are deleted, then the game.  Without a row the
\* variable gameStatus holds the default of the column.
DeleteGame ==
    /\ Idle
    /\ IF GameFound(game)
       THEN /\ logs' = <<>>
            /\ revs' = <<>>
            /\ game' = NoGame
            /\ gameStatus' = "working"
            /\ resp' = [op |-> "delete_game", code |-> 200]
       ELSE /\ resp' = NotFound("delete_game")
            /\ UNCHANGED <<logs, revs, game, gameStatus>>
    /\ UNCHANGED location
    /\ UNCHANGED floorVars

\* POST /settings/games/add by an admin: crud.create_game adds a row with
\* status working.  The model follows one row: with that row present the
\* new game is another row.
SaveNewGame ==
    /\ Idle
    /\ \E location_id \in {NoLocationId, LocationId} :
          IF GameFound(game)
          THEN UNCHANGED <<game, gameStatus>>
          ELSE /\ game' = GameAt(location_id)
               /\ gameStatus' = "working"
    /\ resp' = [op |-> "save_new_game", code |-> 200]
    /\ UNCHANGED <<logs, revs, location>>
    /\ UNCHANGED floorVars

\* POST /settings/games/{game_id}/edit by an admin: game.location_id = location_id
SaveGameChanges ==
    /\ Idle
    /\ IF GameFound(game)
       THEN /\ \E location_id \in {NoLocationId, LocationId} :
                  game' = GameAt(location_id)
            /\ resp' = [op |-> "save_game_changes", code |-> 200]
       ELSE /\ resp' = NotFound("save_game_changes")
            /\ UNCHANGED game
    /\ UNCHANGED <<logs, gameStatus, revs, location>>
    /\ UNCHANGED floorVars

----------------------------------------------------------------------------
(* The floor plan: the rows of the games table as the floor plan reads     *)
(* them (location, cell and status of each game), and move_game.  The      *)
(* variables game and gameStatus above are the row whose history is        *)
(* followed; the specifications of the histories leave the floor plan      *)
(* alone and those of the floor plan leave the histories alone.            *)

MaxGames == 3       \* at most this many games on the floor plan
GridSize == 2       \* the location has GridSize rows and GridSize columns

GameIds == 1..MaxGames

\* "occupant" is None
NoGameId == 0

\* x = None, y = None
NoCoord == -1

\* location.columns and location.rows
GridColumns == GridSize
GridRows == GridSize

NoRow == [present |-> FALSE, location_id |-> NoLocationId, x |-> NoCoord, y |-> NoCoord, status |-> "working"]

\* crud.create_game: Game(location_id=location_id, x=x, y=y, status=GameStatus.working)
Row(location_id, x, y) == [present |-> TRUE, location_id |-> location_id, x |-> x, y |-> y, status |-> "working"]

\* setup_create_game: "If a location is selected, default new game to (1,1)"
FirstRow == Row(LocationId, 1, 1)

\* the id of the next row: the ids are given in order and no row of the floor
\* plan is deleted one by one
NextGameId(g) == SetMin({i \in GameIds : ~g[i].present} \cup {MaxGames + 1})

\* crud.get_game_at: the games of the location on the cell (x, y)
GamesAt(g, location_id, x, y) ==
    {i \in GameIds : /\ g[i].present
                     /\ g[i].location_id = location_id
                     /\ g[i].x = x
                     /\ g[i].y = y}

\* ".first()" of that query, which has no ORDER BY: any of them, None if
\* there is none
Occupants(g, location_id, x, y) ==
    IF GamesAt(g, location_id, x, y) = {} THEN {NoGameId}
    ELSE GamesAt(g, location_id, x, y)

\* the checks of move_game in their order: the status code they end with
MoveCodeBroken(g, loc, logged_in, game_id, selected_location_id, x, y) ==
    IF ~logged_in THEN 401
    ELSE IF ~g[game_id].present THEN 404
    ELSE IF g[game_id].location_id # selected_location_id THEN 400
    ELSE IF selected_location_id # LocationId \/ ~loc.present THEN 400
    ELSE 200
MoveCode(g, loc, logged_in, game_id, selected_location_id, x, y) ==
    IF ~logged_in THEN 401
    ELSE IF ~g[game_id].present THEN 404
    ELSE IF g[game_id].location_id # selected_location_id THEN 400
    ELSE IF selected_location_id # LocationId \/ ~loc.present THEN 400
    ELSE IF x < 1 \/ y < 1 \/ x > GridColumns \/ y > GridRows THEN 422
    ELSE 200

\* no move_game request
NoMove == [pc |-> "idle", code |-> 0, game_id |-> NoGameId, x |-> NoCoord, y |-> NoCoord, original_x |-> NoCoord, original_y |-> NoCoord, occupant |-> NoGameId]

\* what a request holds after "occupant = crud.get_game_at(...)" and
\* "original_x, original_y = game.x, game.y"
Loaded(g, game_id, x, y, occupant) == [pc |-> "loaded", code |-> 200, game_id |-> game_id, x |-> x, y |-> y, original_x |-> g[game_id].x, original_y |-> g[game_id].y, occupant |-> occupant]

\* a request that ends without a write: turned down, or {"unchanged": True}
Rejected(code) == [pc |-> "done", code |-> code, game_id |-> NoGameId, x |-> NoCoord, y |-> NoCoord, original_x |-> NoCoord, original_y |-> NoCoord, occupant |-> NoGameId]

\* "if original_x == x and original_y == y: return {"unchanged": True}"
SameCell(m) == m.original_x = m.x /\ m.original_y = m.y

\* "if occupant and occupant.id != game.id"
SwapsBroken(m) == FALSE
Swaps(m) == m.occupant # NoGameId /\ m.occupant # m.game_id

\* db.commit() of a row whose x and y were assigned: the UPDATE sets the
\* attributes whose value differs from the one that was loaded
Flush(row, loaded_x, loaded_y, x, y) ==
    [row EXCEPT !.x = IF x # loaded_x THEN x ELSE @,
                !.y = IF y # loaded_y THEN y ELSE @]

\* the rows after the writes of move_game: nothing for the same cell,
\* crud.swap_game_positions with an occupant (loaded on the cell (x, y)),
\* crud.update_game_position without
Moved(g, m) ==
    IF SameCell(m) THEN g
    ELSE IF Swaps(m)
    THEN [g EXCEPT ![m.game_id] = Flush(@, m.original_x, m.original_y, m.x, m.y),
                   ![m.occupant] = Flush(@, m.x, m.y, m.original_x, m.original_y)]
    ELSE [g EXCEPT ![m.game_id] = Flush(@, m.original_x, m.original_y, m.x, m.y)]

\* the JSONResponse of move_game: {"unchanged": True}, or "moved" with
\* "swapped" when there was an occupant (swapped.id is NoGameId without)
MoveAnswer(m) ==
    [op |-> "move_game", code |-> 200, unchanged |-> SameCell(m),
     moved |-> [id |-> m.game_id, x |-> m.x, y |-> m.y],
     swapped |-> [id |-> IF ~SameCell(m) /\ Swaps(m) THEN m.occupant ELSE NoGameId,
                  x |-> m.original_x, y |-> m.original_y]]

\* HTTPException(status_code=code) of move_game
MoveError(code) == [op |-> "move_game", code |-> code]

\* the x and y a request can name: the cells and one step outside the grid
XValues == 0..(GridColumns + 1)
YValues == 0..(GridRows + 1)

\* POST /game/{game_id}/move, handled on its own: the session is logged in
\* or not and has a location selected or not
MoveGame ==
    /\ Idle
    /\ \E logged_in \in BOOLEAN, game_id \in GameIds,
          selected_location_id \in {NoLocationId, LocationId},
          x \in XValues, y \in YValues :
          LET code == MoveCode(grid, location, logged_in, game_id,
                               selected_location_id, x, y)
          IN  IF code # 200
              THEN /\ resp' = MoveError(code)
                   /\ UNCHANGED grid
              ELSE \E occupant \in Occupants(grid, LocationId, x, y) :
                      LET m == Loaded(grid, game_id, x, y, occupant)
                      IN  /\ grid' = Moved(grid, m)
                          /\ resp' = MoveAnswer(m)
    /\ UNCHANGED <<users, moves>>
    /\ UNCHANGED historyVars

\* POST /settings/games/add by an admin, for the floor plan: a row with
\* status working, with a location or without, on a cell or without one
\* (x and y are sent with a location).  The cell is checked against the
\* grid; whether a game is on it already is not checked.
SaveNewGameOnFloor ==
    /\ Idle
    /\ \E location_id \in {NoLocationId, LocationId},
          x \in {NoCoord} \cup (1..(GridColumns + 1)), y \in {NoCoord} \cup (1..GridRows) :
          /\ (x = NoCoord) <=> (y = NoCoord)
          /\ location_id = NoLocationId => x = NoCoord
          /\ IF x # NoCoord /\ (~location.present \/ x > GridColumns \/ y > GridRows)
             THEN /\ resp' = [op |-> "save_new_game", code |-> 200, error |-> TRUE]
                  /\ UNCHANGED grid
             ELSE /\ NextGameId(grid) \in GameIds
                  /\ grid' = [grid EXCEPT ![NextGameId(grid)] = Row(location_id, x, y)]
                  /\ resp' = [op |-> "save_new_game", code |-> 200, error |-> FALSE]
    /\ UNCHANGED <<users, moves>>
    /\ UNCHANGED historyVars

----------------------------------------------------------------------------
(* Two move_game requests at a time.  Each request runs in its own thread   *)
(* with its own Session: it reads (the game, the location, the occupant),  *)
(* later it writes and commits, then it answers.                           *)

Requests == {1, 2}

\* the x and y the two requests name: the four cells in the corner of the
\* grid and one step outside the grid
CornerX == {1, 2, GridColumns + 1}
CornerY == {1, 2, GridRows + 1}

\* the reads of request r, of a logged-in session with the location
\* selected; a request that is turned down or names the cell the game is on
\* has nothing to write
MoveRead(r) ==
    /\ moves[r].pc = "idle"
    /\ \E game_id \in GameIds, x \in CornerX, y \in CornerY :
          LET code == MoveCode(grid, location, TRUE, game_id, LocationId, x, y)
          IN  IF code # 200
              THEN moves' = [moves EXCEPT ![r] = Rejected(code)]
              ELSE \E occupant \in Occupants(grid, LocationId, x, y) :
                      LET m == Loaded(grid, game_id, x, y, occupant)
                      IN  moves' = [moves EXCEPT ![r] =
                                       IF SameCell(m) THEN Rejected(200) ELSE m]
    /\ UNCHANGED <<grid, users, resp>>
    /\ UNCHANGED historyVars

\* the writes of request r and their commit
MoveWrite(r) ==
    /\ moves[r].pc = "loaded"
    /\ grid' = Moved(grid, moves[r])
    /\ moves' = [moves EXCEPT ![r].pc = "done"]
    /\ UNCHANGED <<users, resp>>
    /\ UNCHANGED historyVars

\* the answer of request r is sent
MoveReturn(r) ==
    /\ moves[r].pc = "done"
    /\ moves' = [moves EXCEPT ![r] = NoMove]
    /\ UNCHANGED <<grid, users, resp>>
    /\ UNCHANGED historyVars

----------------------------------------------------------------------------
(* Users and their PINs *)

MaxUsers == 3       \* at most this many users

UserIds == 1..MaxUsers

Pins == {"1111", "2222", "3333"}

\* request.session.get("pin") is None, or Form(None) for the pin
NoPin == ""

UserRole == {"admin", "user"}

NoUser == [present |-> FALSE, pin |-> NoPin, role |-> "user"]

\* crud.create_user: User(name=name, pin=pin, role=role)
User(pin, role) == [present |-> TRUE, pin |-> pin, role |-> role]

\* setup_create_admin: the first user is an admin
FirstAdmin == User("1111", "admin")

NextUserId(us) == SetMin({u \in UserIds : ~us[u].present} \cup {MaxUsers + 1})

\* crud.get_user_by_pin: the users with the pin
UsersByPin(us, pin) == {u \in UserIds : us[u].present /\ us[u].pin = pin}

\* get_current_user: None without a pin in the session, else the user the
\* query gives first; TRUE when that can be a user
HasUser(us, session_pin) == session_pin # NoPin /\ UsersByPin(us, session_pin) # {}

\* "not current_user or current_user.role != models.UserRole.admin" is
\* false for the user ".first()" gives: the roles the check can meet
AdminChecks(us, session_pin) ==
    IF HasUser(us, session_pin)
    THEN {us[u].role = "admin" : u \in UsersByPin(us, session_pin)}
    ELSE {FALSE}

\* "existing_user = crud.get_user_by_pin(db, pin)" of save_new_user
PinTaken(us, pin) == UsersByPin(us, pin) # {}

\* crud.update_user: user.role = role; if pin: user.pin = pin
update_user(user, pin, role) ==
    [user EXCEPT !.role = role, !.pin = IF pin # NoPin THEN pin ELSE @]

\* POST /settings/user/add
SaveNewUser ==
    /\ Idle
    /\ \E session_pin \in Pins \cup {NoPin}, pin \in Pins, role \in UserRole :
          \E admin \in AdminChecks(users, session_pin) :
             IF ~admin
             THEN /\ resp' = [op |-> "save_new_user", code |-> 403, error |-> FALSE]
                  /\ UNCHANGED users
             ELSE IF PinTaken(users, pin)
             THEN /\ resp' = [op |-> "save_new_user", code |-> 200, error |-> TRUE]
                  /\ UNCHANGED users
             ELSE /\ NextUserId(users) \in UserIds
                  /\ users' = [users EXCEPT ![NextUserId(users)] = User(pin, role)]
                  /\ resp' = [op |-> "save_new_user", code |-> 200, error |-> FALSE]
    /\ UNCHANGED <<grid, moves>>
    /\ UNCHANGED historyVars

\* POST /settings/user/{user_id}/edit
SaveUserChanges ==
    /\ Idle
    /\ \E session_pin \in Pins \cup {NoPin}, user_id \in UserIds,
          pin \in Pins \cup {NoPin}, role \in UserRole :
          \E admin \in AdminChecks(users, session_pin) :
             IF ~admin
             THEN /\ resp' = [op |-> "save_user_changes", code |-> 403]
                  /\ UNCHANGED users
             ELSE IF ~users[user_id].present
             THEN /\ resp' = NotFound("save_user_changes")
                  /\ UNCHANGED users
             ELSE /\ users' = [users EXCEPT ![user_id] = update_user(@, pin, role)]
                  /\ resp' = [op |-> "save_user_changes", code |-> 200]
    /\ UNCHANGED <<grid, moves>>
    /\ UNCHANGED historyVars

\* POST /setup/first-run/admin: "if crud.get_users(db): Already initialized",
\* else the first user, an admin
SetupCreateAdmin ==
    /\ Idle
    /\ IF \E u \in UserIds : users[u].present
       THEN /\ resp' = [op |-> "setup_create_admin", code |-> 400]
            /\ UNCHANGED users
       ELSE /\ users' = [users EXCEPT ![1] = FirstAdmin]
            /\ resp' = [op |-> "setup_create_admin", code |-> 200]
    /\ UNCHANGED <<grid, moves>>
    /\ UNCHANGED historyVars

----------------------------------------------------------------------------
(* Requests and calls of the revenue history *)

\* POST /game/{game_id}/log-revenue by a logged-in user: crud.log_revenue
\* adds one row dated collected_at
LogRevenue ==
    /\ Idle
    /\ IF GameFound(game)
       THEN /\ Len(revs) < MaxRevs
            /\ \E c \in Collections, collected_at \in RevTimes :
                  revs' = Append(revs, RevenueEntry(collected_at, c[1], c[2]))
            /\ resp' = [op |-> "log_revenue", code |-> 200]
       ELSE /\ resp' = NotFound("log_revenue")
            /\ UNCHANGED revs
    /\ UNCHANGED <<logs, gameStatus, location, game>>
    /\ UNCHANGED floorVars

\* POST /settings/location/{location_id}/edit by an admin:
\* location_to_update.token_value = token_value
SaveLocationEdit ==
    /\ Idle
    /\ IF location.present
       THEN /\ \E token_value \in TokenValues :
                  location' = [location EXCEPT !.token_value = token_value]
            /\ resp' = [op |-> "save_location_edit", code |-> 200]
       ELSE /\ resp' = NotFound("save_location_edit")
            /\ UNCHANGED location
    /\ UNCHANGED <<logs, gameStatus, revs, game>>
    /\ UNCHANGED floorVars

\* GET /game/{game_id}/revenue-series?start=..&end=..: the rows are read,
\* each row of the answer is computed from its entry, nothing is written
RevenueSeriesApiBroken ==
    /\ Idle
    /\ \E start_dt \in RevWindowTimes, end_dt \in RevWindowTimes :
          resp' = IF GameFound(game)
                  THEN RevenueSeries(revs, start_dt, end_dt,
                                     TokenValueOf(game, location))
                  ELSE NotFound("revenue_series")
    /\ revs' = [i \in 1..Len(revs) |->
                  IF GameFound(game) /\ revs[i].is_token
                  THEN RevenueEntry(revs[i].timestamp,
                                    Round2(revs[i].amount * TokenValueOf(game, location), 100),
                                    FALSE)
                  ELSE revs[i]]
    /\ UNCHANGED <<logs, gameStatus, location, game>>
    /\ UNCHANGED floorVars
RevenueSeriesApi ==
    /\ Idle
    /\ \E start_dt \in RevWindowTimes, end_dt \in RevWindowTimes :
          resp' = IF GameFound(game)
                  THEN RevenueSeries(revs, start_dt, end_dt,
                                     TokenValueOf(game, location))
                  ELSE NotFound("revenue_series")
    /\ UNCHANGED <<logs, gameStatus, revs, location, game>>
    /\ UNCHANGED floorVars

\* the entries of the window, as the route of the series fetches them
Fetched(start, end) == InRange(revs, start, end)

\* the timestamp of the last entry before the window, if there is one
PrevOutside(start) ==
    LET before == {e.timestamp : e \in {revs[i] : i \in 1..Len(revs)}}
                     \cap {t \in RevTimes : t < start}
    IN  IF before = {} THEN NoTime ELSE SetMax(before)

\* A call of build_revenue_series.  The function sorts nothing and checks
\* nothing; it is given the whole history in ascending order, the entries of
\* the window with or without the previous timestamp on the first one
\* (_prev_ts), or the rows as they are stored (game.revenue_entries).
BuildRevenueSeriesCall ==
    /\ Idle
    /\ \E start \in RevWindowTimes, end \in RevWindowTimes,
          granularity \in Granularities,
          feed \in {"history", "window", "window_prev", "stored"} :
          LET entries == IF feed = "history" THEN OrderByTs(revs)
                         ELSE IF feed = "stored" THEN revs
                         ELSE Fetched(start, end)
              prev_ts == IF feed = "window_prev" /\ entries # <<>>
                         THEN PrevOutside(start) ELSE NoTime
          IN  resp' = BuildRevenueSeries(entries, prev_ts, start, end,
                                         granularity, TokenValueOf(game, location))
    /\ UNCHANGED <<logs, gameStatus, revs, location, game>>
    /\ UNCHANGED floorVars

----------------------------------------------------------------------------
(* Requests that change the status history *)

\* "if game and user:" of report_fault and report_fix
ReportsBroken(g, user) == GameFound(g)
Reports(g, user) == GameFound(g) /\ user

\* RedirectResponse(url="/", status_code=303) to a session that is logged in
\* as a user or is not
RedirectFor(name, user) == [op |-> name, code |-> 303, user |-> user]

\* crud.report_fault: a LogEntry with action = status.value, game.status = status.
\* The timestamp is the database clock (server_default=func.now()), which
\* does not run backwards.  Without the game the route only redirects.
ReportFault ==
    /\ Idle
    /\ \E session_pin \in Pins \cup {NoPin} :
          /\ IF Reports(game, HasUser(users, session_pin))
             THEN /\ Len(logs) < MaxEvents
                  /\ \E status \in GameStatus, now \in EventTimes :
                        /\ now >= LastTs(logs)
                        /\ logs' = Append(logs, LogEntry(now, status))
                        /\ gameStatus' = status
             ELSE UNCHANGED <<logs, gameStatus>>
          /\ resp' = RedirectFor("report_fault", HasUser(users, session_pin))
    /\ UNCHANGED <<revs, location, game>>
    /\ UNCHANGED floorVars

\* crud.report_fix: a LogEntry with action "working", game.status = working
ReportFix ==
    /\ Idle
    /\ \E session_pin \in Pins \cup {NoPin} :
          /\ IF Reports(game, HasUser(users, session_pin))
             THEN /\ Len(logs) < MaxEvents
                  /\ \E now \in EventTimes :
                        /\ now >= LastTs(logs)
                        /\ logs' = Append(logs, LogEntry(now, "working"))
                  /\ gameStatus' = "working"
             ELSE UNCHANGED <<logs, gameStatus>>
          /\ resp' = RedirectFor("report_fix", HasUser(users, session_pin))
    /\ UNCHANGED <<revs, location, game>>
    /\ UNCHANGED floorVars

\* init_demo_data: drop_all and create_all leave every table empty; the first
\* row it builds, User(..., role=UserRole.management), raises AttributeError
\* (models.UserRole has the members admin and user), so nothing is added
InitDemoData ==
    /\ Idle
    /\ logs' = <<>>
    /\ revs' = <<>>
    /\ gameStatus' = "working"
    /\ location' = [present |-> FALSE, token_value |-> DefaultTokenValue]
    /\ game' = NoGame
    /\ grid' = [g \in GameIds |-> NoRow]
    /\ users' = [u \in UserIds |-> NoUser]
    /\ UNCHANGED moves
    /\ resp' = [op |-> "init_demo_data", code |-> 1]

\* GET /game/{game_id}/status-series?start=..&end=..: the rows are read (the
\* timestamps get their zone on the loaded objects), the Session is closed
\* without a commit
StatusSeriesApi ==
    /\ Idle
    /\ \E start_dt \in WindowTimes, end_dt \in WindowTimes :
          resp' = IF GameFound(game)
                  THEN StatusSeries(logs, start_dt, end_dt)
                  ELSE NotFound("status_series")
    /\ UNCHANGED <<logs, gameStatus, revs, location, game>>
    /\ UNCHANGED floorVars

----------------------------------------------------------------------------
(* Specification of the status history and its queries *)

\* the database after the first-run setup: one location, one game in it,
\* no log entry and no revenue entry
Init ==
    /\ logs = <<>>
    /\ gameStatus = "working"
    /\ revs = <<>>
    /\ location = [present |-> TRUE, token_value |-> DefaultTokenValue]
    /\ game = GameAt(LocationId)
    /\ grid = [g \in GameIds |-> IF g = 1 THEN FirstRow ELSE NoRow]
    /\ users = [u \in UserIds |-> IF u = 1 THEN FirstAdmin ELSE NoUser]
    /\ moves = [r \in Requests |-> NoMove]
    /\ resp = NoResponse

\* the client reads the answer
Receive ==
    /\ ~Idle
    /\ resp' = NoResponse
    /\ UNCHANGED <<logs, gameStatus, revs, location, game>>
    /\ UNCHANGED floorVars

NextStatus ==
    \/ ReportFault
    \/ ReportFix
    \/ InitDemoData
    \/ SetupCreateAdmin
    \/ DeleteGame
    \/ SaveNewGame
    \/ StatusSeriesApi
    \/ Receive

SpecStatus == Init /\ [][NextStatus]_vars

----------------------------------------------------------------------------
(* Specification of the revenue history and its queries *)

NextRevenue ==
    \/ LogRevenue
    \/ SaveLocationEdit
    \/ SaveGameChanges
    \/ DeleteGame
    \/ SaveNewGame
    \/ RevenueSeriesApi
    \/ BuildRevenueSeriesCall
    \/ Receive

SpecRevenue == Init /\ [][NextRevenue]_vars

----------------------------------------------------------------------------
(* Specification of the three series over one catalogue: the game comes and *)
(* goes, with the revenue entries that were logged for it.                  *)

NextQueries ==
    \/ LogRevenue
    \/ InitDemoData
    \/ DeleteGame
    \/ SaveNewGame
    \/ SaveGameChanges
    \/ StatusSeriesApi
    \/ RevenueSeriesApi
    \/ BuildRevenueSeriesCall
    \/ Receive

SpecQueries == Init /\ [][NextQueries]_vars

----------------------------------------------------------------------------
(* Specification of _daterange_floor as a function of its arguments *)

\* the instants the floor is taken of: each day of the first six weeks, at
\* midnight, one second later, at noon and one second before midnight
FloorTimes == {d * Day + sec : d \in 0..MaxFloorDay, sec \in {0, 1, 12 * Hour, Day - 1}}

\* a call _daterange_floor(dt, granularity), and one more on its result
FloorCall ==
    /\ Idle
    /\ \E dt \in FloorTimes, granularity \in Granularities :
          LET floor == _daterange_floor(dt, granularity)
          IN  resp' = [op |-> "_daterange_floor", code |-> 0, dt |-> dt,
                       granularity |-> granularity, floor |-> floor,
                       again |-> _daterange_floor(floor, granularity)]
    /\ UNCHANGED <<logs, gameStatus, revs, location, game>>
    /\ UNCHANGED floorVars

NextFloor ==
    \/ FloorCall
    \/ Receive

SpecFloor == Init /\ [][NextFloor]_vars

----------------------------------------------------------------------------
(* Specification of the floor plan, one request at a time *)

NextMoves ==
    \/ SaveNewGameOnFloor
    \/ MoveGame
    \/ Receive

SpecMoves == Init /\ [][NextMoves]_vars

----------------------------------------------------------------------------
(* Specification of two move_game requests at a time, on a floor plan with  *)
(* two games next to each other (the first at (1, 1) since the setup, the   *)
(* second added at (2, 1))                                                  *)

InitConcurrent ==
    /\ logs = <<>>
    /\ gameStatus = "working"
    /\ revs = <<>>
    /\ location = [present |-> TRUE, token_value |-> DefaultTokenValue]
    /\ game = GameAt(LocationId)
    /\ grid = [g \in GameIds |-> IF g = 1 THEN FirstRow
                                 ELSE IF g = 2 THEN Row(LocationId, 2, 1)
                                 ELSE NoRow]
    /\ users = [u \in UserIds |-> IF u = 1 THEN FirstAdmin ELSE NoUser]
    /\ moves = [r \in Requests |-> NoMove]
    /\ resp = NoResponse

NextConcurrent ==
    \/ \E r \in Requests : MoveRead(r)
    \/ \E r \in Requests : MoveWrite(r)
    \/ \E r \in Requests : MoveReturn(r)

SpecConcurrentMoves == InitConcurrent /\ [][NextConcurrent]_vars

----------------------------------------------------------------------------
(* Specification of the users *)

NextUsers ==
    \/ SaveNewUser
    \/ SaveUserChanges
    \/ Receive

SpecUsers == Init /\ [][NextUsers]_vars

----------------------------------------------------------------------------
(* Reference definitions for the status claims: what the history says,     *)
(* computed event by event instead of by walking a cursor.                 *)

Overlap(a1, b1, a2, b2) == Max(Min(b1, b2) - Max(a1, a2), 0)

\* seconds of [a, b) during which the last event at or before the instant
\* is out_of_order (no event yet: working)
OutSeconds(ls, a, b) ==
    SeqSum([i \in 1..Len(ls) |->
              IF ls[i].action = "out_of_order"
              THEN Overlap(ls[i].timestamp,
                           IF i < Len(ls) THEN ls[i + 1].timestamp ELSE b,
                           a, b)
              ELSE 0])

\* the days [k, k + 1 day) that meet [start, end)
DaysMeeting(start, end) ==
    {k \in {d * Day : d \in 0..(MaxDay + 2)} : Overlap(k, k + Day, start, end) > 0}

IsSeries == resp.op = "status_series" /\ resp.code # 404 /\ resp.start < resp.end

Rows == {resp.daily[i] : i \in 1..Len(resp.daily)}

SumHours == SeqSum([i \in 1..Len(resp.daily) |->
                      resp.daily[i].uptime_hours + resp.daily[i].downtime_hours])

\* C1 (as stated): every bucket has uptime + downtime equal to its overlap
\* with the window, and the reported hours summed over all buckets are
\* within 0.01 h (36 s) of end - start.
C1_SumWithinOneHundredth ==
    IsSeries =>
       /\ \A r \in Rows :
             /\ r.up_sec + r.down_sec = Overlap(r.t, r.t + Day, resp.start, resp.end)
             /\ Abs(36 * (r.uptime_hours + r.downtime_hours)
                      - Overlap(r.t, r.t + Day, resp.start, resp.end)) <= 36
       /\ Abs(36 * SumHours - (resp.end - resp.start)) <= 36

\* C1 (amended): in seconds every bucket has uptime + downtime exactly equal
\* to its overlap with the window and the overlaps add up to end - start;
\* the reported hours of a bucket are within 0.01 h of its overlap, so the
\* sum over n buckets is within n * 0.01 h of end - start.
C1_BucketsComplete ==
    IsSeries =>
       /\ \A r \in Rows :
             /\ r.up_sec + r.down_sec = Overlap(r.t, r.t + Day, resp.start, resp.end)
             /\ Abs(36 * (r.uptime_hours + r.downtime_hours)
                      - Overlap(r.t, r.t + Day, resp.start, resp.end)) <= 36
       /\ SeqSum([i \in 1..Len(resp.daily) |->
                    resp.daily[i].up_sec + resp.daily[i].down_sec])
             = resp.end - resp.start
       /\ Abs(36 * SumHours - (resp.end - resp.start)) <= 36 * Len(resp.daily)

\* a window that starts inside a day, with a first bucket that is partly
\* down and partly up
C1_Witness ==
    /\ IsSeries
    /\ Len(resp.daily) >= 2
    /\ resp.start % Day # 0
    /\ resp.daily[1].down_sec > 0
    /\ resp.daily[1].up_sec > 0

\* C2: the downtime of each daily bucket is the length of the part of that
\* day, inside the window, during which the status is out_of_order; there is
\* one bucket for each day that meets the window and no other.
C2_DowntimePerDay ==
    IsSeries =>
       /\ {r.t : r \in Rows} = DaysMeeting(resp.start, resp.end)
       /\ \A r \in Rows :
             LET out == OutSeconds(logs, Max(r.t, resp.start),
                                   Min(r.t + Day, resp.end))
             IN  /\ r.down_sec = out
                 /\ r.downtime_hours = HoursRounded(out)

\* out_of_order from day 0 12:00 to day 2 06:00, window from day 0 to the
\* last day: 12 h, 24 h and 6 h
C2_Witness ==
    /\ IsSeries
    /\ resp.start = 0 /\ resp.end = MaxDay * Day
    /\ logs = <<LogEntry(12 * Hour, "out_of_order"),
                LogEntry(2 * Day + 6 * Hour, "working")>>
    /\ Len(resp.daily) = MaxDay
    /\ resp.daily[1].downtime_hours = 1200
    /\ resp.daily[2].downtime_hours = 2400
    /\ resp.daily[3].downtime_hours = 600
    /\ resp.daily[3].uptime_hours = 1800

\* C5: the status in force at window.start is the action of the last event
\* strictly before window.start, and working when there is none.
C5_StatusAtStart ==
    IsSeries =>
       LET before == {i \in 1..Len(logs) : logs[i].timestamp < resp.start}
       IN  resp.start_status =
              IF before = {} THEN "working" ELSE logs[SetMax(before)].action

\* an event before the window and a different one exactly at its start
C5_Witness ==
    /\ IsSeries
    /\ \E i \in 1..Len(logs) : \E j \in 1..Len(logs) :
          /\ logs[i].timestamp < resp.start
          /\ logs[j].timestamp = resp.start
          /\ logs[i].action # logs[j].action
          /\ logs[i].action # "working"
          /\ resp.start_status = logs[i].action

\* the log entries that are not timestamped exactly at t
Without(ls, t) == SelectSeq(ls, LAMBDA x : x.timestamp # t)

\* C6: an event exactly at window.start is in force from window.start on
\* (up to the next later event, the end of the day or the end of the window
\* the first bucket is down exactly when that event is out_of_order), and an
\* event exactly at window.end changes no bucket and no total.
C6_HalfOpenWindow ==
    IsSeries =>
       /\ LET at == {i \in 1..Len(logs) : logs[i].timestamp = resp.start}
              later == {logs[i].timestamp : i \in 1..Len(logs)}
                          \cap {t \in EventTimes : t > resp.start}
              t1 == SetMin(later \cup {resp.end, _floor_day(resp.start) + Day})
              first == resp.daily[1]
          IN  at # {} =>
                 IF logs[SetMax(at)].action = "out_of_order"
                 THEN first.down_sec >= t1 - resp.start
                 ELSE first.down_sec <= first.window_seconds - (t1 - resp.start)
       /\ LET other == StatusSeries(Without(logs, resp.end), resp.start, resp.end)
          IN  /\ other.daily = resp.daily
              /\ other.totals = resp.totals

\* an out_of_order event exactly at the start of the window, after a
\* different status, and an event exactly at its end
C6_Witness ==
    /\ IsSeries
    /\ resp.start_status # "out_of_order"
    /\ \E i \in 1..Len(logs) : \E j \in 1..Len(logs) :
          /\ logs[i].timestamp = resp.start
          /\ logs[i].action = "out_of_order"
          /\ logs[j].timestamp = resp.end
          /\ logs[j].action = "working"
    /\ resp.daily[1].down_sec > 0

\* C8: with no status event at all, every bucket and the totals report
\* downtime 0 and the uptime is the whole window.
C8_NoEvents ==
    (IsSeries /\ logs = <<>>) =>
       /\ \A r \in Rows :
             /\ r.down_sec = 0 /\ r.downtime_hours = 0
             /\ r.up_sec = Overlap(r.t, r.t + Day, resp.start, resp.end)
             /\ r.uptime_hours = HoursRounded(r.up_sec)
       /\ resp.totals.downtime_hours = 0
       /\ resp.totals.uptime_hours = HoursRounded(resp.end - resp.start)

C8_Witness ==
    /\ IsSeries /\ logs = <<>>
    /\ Len(resp.daily) >= 2
    /\ resp.totals.uptime_hours > 0

\* C9: only time in out_of_order is downtime: a history without any
\* out_of_order entry has downtime 0 in every bucket and in the totals, and
\* a bucket with downtime lies after some out_of_order entry.
C9_OnlyOutOfOrderIsDown ==
    IsSeries =>
       /\ (\A i \in 1..Len(logs) : logs[i].action # "out_of_order") =>
             /\ \A r \in Rows : r.down_sec = 0 /\ r.downtime_hours = 0
                                   /\ r.up_sec = r.window_seconds
             /\ resp.totals.downtime_hours = 0
             /\ resp.totals.uptime_hours = HoursRounded(resp.end - resp.start)
       /\ \A r \in Rows : r.down_sec > 0 =>
             \E i \in 1..Len(logs) : /\ logs[i].action = "out_of_order"
                                     /\ logs[i].timestamp < Min(r.t + Day, resp.end)

\* needs_maintenance and working entries in force inside the window
C9_Witness ==
    /\ IsSeries
    /\ \A i \in 1..Len(logs) : logs[i].action # "out_of_order"
    /\ \E i \in 1..Len(logs) : /\ logs[i].action = "needs_maintenance"
                               /\ logs[i].timestamp < resp.end
    /\ \E i \in 1..Len(logs) : /\ logs[i].action = "working"
                               /\ logs[i].timestamp < resp.end
    /\ resp.totals.downtime_hours = 0

----------------------------------------------------------------------------
(* Reference definitions for the revenue claims *)

IsBuilt == resp.op = "build_revenue_series" /\ resp.start < resp.end

\* the interval [IntervalStart(i), timestamp) of entry i of the call
IntervalStart(i) ==
    IF i > 1 THEN resp.entries[i - 1].timestamp
    ELSE IF resp.prev_ts # NoTime THEN resp.prev_ts ELSE resp.start

ClampStart(i) == Max(IntervalStart(i), resp.start)
ClampEnd(i) == Min(resp.entries[i].timestamp, resp.end)

\* the interval of entry i overlaps the window
Overlapping(i) == ClampEnd(i) > ClampStart(i)

\* the cash value of entry i
Cash(i) ==
    LET e == resp.entries[i]
    IN  IF e.is_token THEN Rat(e.amount * resp.token_value, 100) ELSE Rat(e.amount, 1)

\* the width of the buckets of the call
Width == IF resp.granularity = "daily" THEN Day
         ELSE IF resp.granularity = "weekly" THEN 7 * Day ELSE 30 * Day

\* what entry i owes the bucket [b, b + Width)
Share(i, b) ==
    IF Overlapping(i)
    THEN RatScale(Cash(i), Overlap(b, b + Width, ClampStart(i), ClampEnd(i)),
                  resp.entries[i].timestamp - IntervalStart(i))
    ELSE Zero

Expected(b) == RatSum([i \in 1..Len(resp.entries) |-> Share(i, b)])

\* the part of the cash of entry i that falls inside the window
InWindowCash(i) ==
    IF Overlapping(i)
    THEN RatScale(Cash(i), ClampEnd(i) - ClampStart(i),
                  resp.entries[i].timestamp - IntervalStart(i))
    ELSE Zero

\* C3: the per-bucket amounts add up to the cash of the events whose
\* interval overlaps the window.  Read in the code's favour: an event counts
\* with the part of its cash that falls inside the window, and each bucket
\* is allowed 0.01 for the rounding of its amount.
C3_DistributionConserved ==
    IsBuilt =>
       LET total == RatSum([i \in 1..Len(resp.entries) |-> InWindowCash(i)])
           given == SeqSum([k \in 1..Len(resp.out) |-> resp.out[k].amount])
       IN  Abs(given * total.d - total.n) <= total.d * Len(resp.out)

\* C4: every bucket holds, for each event with a non-empty clamped interval,
\* amount_cash * overlap_seconds / (timestamp - prev_time) for its overlap
\* with that interval, and nothing else.
C4_ProportionalShares ==
    IsBuilt => \A b \in DOMAIN resp.bins : resp.bins[b] = Expected(b)

\* C7: revenue_series_api returns the events of [start, end): one row for
\* each event with start <= timestamp < end, and none for an event
\* timestamped exactly at end.
C7_RawSeriesHalfOpen ==
    (resp.op = "revenue_series" /\ resp.code = 200 /\ resp.start < resp.end) =>
       /\ \A k \in 1..Len(resp.series) :
             resp.start <= resp.series[k].t /\ resp.series[k].t < resp.end
       /\ Len(resp.series) =
             Cardinality({i \in 1..Len(revs) : /\ resp.start <= revs[i].timestamp
                                               /\ revs[i].timestamp < resp.end})

\* C10: an event whose timestamp equals prev_time and lies inside the window
\* has its full cash amount in the bucket that contains its timestamp.
C10_ZeroDurationInOneBucket ==
    IsBuilt =>
       \A i \in 1..Len(resp.entries) :
          LET ts == resp.entries[i].timestamp
          IN  (ts = IntervalStart(i) /\ resp.start <= ts /\ ts < resp.end) =>
                 \E b \in DOMAIN resp.bins :
                    /\ b <= ts /\ ts < b + Width
                    /\ RatLeq(Cash(i), resp.bins[b])

----------------------------------------------------------------------------
(* Bucket starts, input order and conversion *)

\* the bucket starts of the series that was built
BucketStarts == DOMAIN resp.bins

\* C11: with monthly granularity the bucket starts of build_revenue_series
\* are midnight of the calendar day of window.start plus k * 30 days, for
\* every such instant before window.end.
C11_MonthlyFromDayFloor ==
    (IsBuilt /\ resp.granularity = "monthly") =>
       LET day0 == resp.start - (resp.start % Day)
       IN  BucketStarts = {b \in {day0 + k * 30 * Day : k \in 0..MaxBins} : b < resp.end}

\* C12: given entries that are not in ascending timestamp order,
\* build_revenue_series returns the buckets it returns for the same entries
\* sorted ascending, or it signals an error (it does not return normally).
C12_UnsortedAsSortedOrError ==
    IsBuilt =>
       \/ resp.code # 0
       \/ resp.out = BuildRevenueSeries(OrderByTs(resp.entries), resp.prev_ts,
                                        resp.start, resp.end, resp.granularity,
                                        resp.token_value).out

\* the conversion rate of the game: the token_value of its location, 1.0
\* (100 hundredths) when it has none
Rate == IF game.location_id # NoLocationId /\ location.present
        THEN location.token_value ELSE 100

IsRawSeries == resp.op = "revenue_series" /\ resp.code = 200

\* C13: the cash value of an event is amount * token_value when is_token is
\* true and the amount itself otherwise.  Every row of revenue_series_api is
\* a stored event with that cash value as amount, at the rate of the game's
\* location or 1.0 without a location; every daily or weekly bucket of
\* build_revenue_series is made of shares of these cash values at the
\* token_value it was given.
C13_TokenConversion ==
    /\ IsRawSeries =>
          \A k \in 1..Len(resp.series) :
             LET r == resp.series[k]
             IN  /\ \E i \in 1..Len(revs) :
                       /\ revs[i].timestamp = r.t
                       /\ revs[i].amount = r.raw_amount
                       /\ revs[i].is_token <=> (r.type = "tokens")
                 /\ r.type \in {"tokens", "cash"}
                 /\ r.amount = IF r.type = "tokens"
                               THEN Round2(r.raw_amount * Rate, 100)
                               ELSE r.raw_amount
    /\ (IsBuilt /\ resp.granularity # "monthly") =>
          \A b \in BucketStarts : resp.bins[b] = Expected(b)

\* 10 tokens at the rate 0.25 are reported as 2.50
C13_Witness ==
    /\ IsRawSeries
    /\ location.token_value = 25
    /\ \E k \in 1..Len(resp.series) :
          /\ resp.series[k].type = "tokens"
          /\ resp.series[k].raw_amount = 1000
          /\ resp.series[k].amount = 250

\* C14: revenue_series_api returns exactly one row for each stored event of
\* the game inside the window [start, end), in ascending timestamp order,
\* with raw_amount the event's amount, amount its cash value and type
\* "tokens" if is_token else "cash", and no other row.
C14_OneRowPerEventInWindow ==
    (IsRawSeries /\ resp.start < resp.end) =>
       LET inside == SelectSeq(OrderByTs(revs),
                               LAMBDA e : resp.start <= e.timestamp
                                            /\ e.timestamp < resp.end)
       IN  /\ Len(resp.series) = Len(inside)
           /\ \A k \in 1..Len(resp.series) :
                 k <= Len(inside) =>
                    /\ resp.series[k].t = inside[k].timestamp
                    /\ resp.series[k].raw_amount = inside[k].amount
                    /\ resp.series[k].type =
                          (IF inside[k].is_token THEN "tokens" ELSE "cash")
                    /\ resp.series[k].amount =
                          (IF inside[k].is_token
                           THEN Round2(inside[k].amount * Rate, 100)
                           ELSE inside[k].amount)
           /\ \A k \in 1..(Len(resp.series) - 1) :
                 resp.series[k].t <= resp.series[k + 1].t

----------------------------------------------------------------------------
(* Empty windows, missing games and the seeded buckets *)

IsStatusAnswer == resp.op = "status_series" /\ resp.code # 404

IsBuildAnswer == resp.op = "build_revenue_series"

\* C15: for a window with start >= end, status_series_api answers with an
\* empty bucket list and uptime and downtime totals 0, and
\* build_revenue_series returns the empty sequence; neither raises an error.
C15_EmptyWindow ==
    /\ (IsStatusAnswer /\ resp.start >= resp.end) =>
          /\ resp.code = 200
          /\ resp.daily = <<>>
          /\ resp.totals = [uptime_hours |-> 0, downtime_hours |-> 0]
    /\ (IsBuildAnswer /\ resp.start >= resp.end) =>
          /\ resp.code = 0
          /\ resp.out = <<>>

\* a call with start = end inside a day, for a game with a revenue entry
C15_Witness ==
    /\ IsBuildAnswer
    /\ resp.start = resp.end
    /\ resp.start % Day # 0
    /\ revs # <<>>
    /\ resp.out = <<>>

\* C16: status_series_api and revenue_series_api answer 404 whenever no game
\* has the requested id, and the answer carries nothing but the error; for
\* a game that exists they do not answer 404.
C16_NotFound ==
    resp.op \in {"status_series", "revenue_series"} =>
       IF game.present
       THEN resp.code # 404
       ELSE resp = [op |-> resp.op, code |-> 404]

\* a status series asked for a game that was deleted
C16_Witness ==
    /\ ~game.present
    /\ resp.op = "status_series"
    /\ resp.code = 404

\* instants at which the cover of a window is probed
Probes(start, end) ==
    {t \in FloorTimes \cup WindowTimes \cup RevWindowTimes \cup {start, end - 1} :
        start <= t /\ t < end}

\* starts is first, first + step, ... below end, and each probed instant of
\* [start, end) lies in exactly one bucket [b, b + step)
SeededFrom(starts, first, step, start, end) ==
    /\ IsFiniteSet(starts)
    /\ first \in starts
    /\ \A b \in starts : b < end /\ b >= first /\ (b - first) % step = 0
    /\ \A b \in starts : b + step < end => b + step \in starts
    /\ \A t \in Probes(start, end) :
          Cardinality({b \in starts : b <= t /\ t < b + step}) = 1

\* the bucket starts in the order of the answer
AnswerStarts ==
    IF IsBuildAnswer THEN [i \in 1..Len(resp.out) |-> resp.out[i].t]
    ELSE [i \in 1..Len(resp.daily) |-> resp.daily[i].t]

\* C17: for a window start < end the seeded bucket starts are floor(start),
\* floor(start) + step, ... for every such value below end, for the day
\* buckets of status_series_api and for the buckets of build_revenue_series:
\* finitely many, strictly ascending, and every instant of [start, end) lies
\* in exactly one bucket [b, b + step).
C17_SeededBucketsCover ==
    ((IsStatusAnswer \/ IsBuildAnswer) /\ resp.start < resp.end) =>
       LET first == IF IsBuildAnswer
                    THEN _daterange_floor(resp.start, resp.granularity)
                    ELSE resp.start - (resp.start % Day)
           step == IF IsBuildAnswer THEN Width ELSE Day
           starts == {AnswerStarts[i] : i \in 1..Len(AnswerStarts)}
       IN  /\ SeededFrom(starts, first, step, resp.start, resp.end)
           /\ IsBuildAnswer => starts = BucketStarts
           /\ \A i \in 1..(Len(AnswerStarts) - 1) :
                 AnswerStarts[i] < AnswerStarts[i + 1]

\* a window that starts inside a day and ends at a midnight, with a bucket
\* for each of its two days
C17_Witness ==
    /\ IsStatusAnswer
    /\ resp.start < resp.end
    /\ resp.start % Day # 0
    /\ resp.end % Day = 0
    /\ Len(resp.daily) >= 2

----------------------------------------------------------------------------
(* The rows of build_revenue_series, the floor and the status totals *)

\* C18: build_revenue_series returns exactly one entry per seeded bucket,
\* in ascending order of bucket start; a bucket that received no
\* contribution (nothing was added to its seeded 0) is not omitted and
\* appears with amount 0.
C18_OneRowPerSeededBucket ==
    IsBuilt =>
       LET first == _daterange_floor(resp.start, resp.granularity)
           seeded == {b \in {first + k * Width : k \in 0..(MaxBins + 1)} : b < resp.end}
       IN  /\ Len(resp.out) = Cardinality(seeded)
           /\ {resp.out[i].t : i \in 1..Len(resp.out)} = seeded
           /\ \A i \in 1..(Len(resp.out) - 1) : resp.out[i].t < resp.out[i + 1].t
           /\ \A b \in seeded :
                 resp.bins[b] = Zero =>
                    \E i \in 1..Len(resp.out) :
                       resp.out[i].t = b /\ resp.out[i].amount = 0
           /\ (\A j \in 1..Len(resp.entries) : ~Overlapping(j)) =>
                 \A i \in 1..Len(resp.out) : resp.out[i].amount = 0

\* a series with a bucket that got a share and a later one that got none
C18_Witness ==
    /\ IsBuilt
    /\ Len(resp.out) >= 3
    /\ resp.out[1].amount > 0
    /\ resp.out[Len(resp.out)].amount = 0

IsFloor == resp.op = "_daterange_floor"

\* C19: _daterange_floor maps an instant to midnight of the same calendar
\* day for daily granularity and to midnight of the most recent Monday, on
\* or before the instant, for weekly granularity (day 0, 2024-01-01, is a
\* Monday); for both, floor(t) <= t, t - floor(t) is less than the bucket
\* width and floor(floor(t)) = floor(t).
C19_FloorDailyWeekly ==
    (IsFloor /\ resp.granularity \in {"daily", "weekly"}) =>
       LET t == resp.dt
           f == resp.floor
           width == IF resp.granularity = "daily" THEN Day ELSE 7 * Day
       IN  /\ f % Day = 0
           /\ f <= t
           /\ t - f < width
           /\ resp.again = f
           /\ resp.granularity = "daily" => f \div Day = t \div Day
           /\ resp.granularity = "weekly" => (f \div Day) % 7 = 0

\* the last second of a Sunday is floored to the Monday six days before
C19_Witness ==
    /\ IsFloor
    /\ resp.granularity = "weekly"
    /\ resp.dt = 13 * Day + (Day - 1)
    /\ resp.floor = 7 * Day

\* C20: in the answer of status_series_api the downtime total is the sum of
\* the per-bucket downtimes and the uptime total the sum of the per-bucket
\* uptimes, up to the rounding to 2 decimals: the seconds add up exactly,
\* each reported value is its seconds rounded to hundredths of an hour, and
\* so the total and the sum of the n bucket values differ by at most
\* (n + 1) * 0.005 h.
C20_TotalsAreBucketSums ==
    IsSeries =>
       LET n == Len(resp.daily)
           down == SeqSum([i \in 1..n |-> resp.daily[i].down_sec])
           up == SeqSum([i \in 1..n |-> resp.daily[i].up_sec])
           downHours == SeqSum([i \in 1..n |-> resp.daily[i].downtime_hours])
           upHours == SeqSum([i \in 1..n |-> resp.daily[i].uptime_hours])
       IN  /\ resp.totals.downtime_hours = HoursRounded(down)
           /\ resp.totals.uptime_hours = HoursRounded(up)
           /\ \A i \in 1..n :
                 /\ resp.daily[i].downtime_hours = HoursRounded(resp.daily[i].down_sec)
                 /\ resp.daily[i].uptime_hours = HoursRounded(resp.daily[i].up_sec)
           /\ 2 * Abs(downHours - resp.totals.downtime_hours) <= n + 1
           /\ 2 * Abs(upHours - resp.totals.uptime_hours) <= n + 1

\* downtime in two buckets, with a total that is not the sum of the rounded
\* bucket values
C20_Witness ==
    /\ IsSeries
    /\ Len(resp.daily) >= 2
    /\ resp.daily[1].down_sec > 0
    /\ resp.daily[2].down_sec > 0
    /\ resp.totals.downtime_hours #
          SeqSum([i \in 1..Len(resp.daily) |-> resp.daily[i].downtime_hours])

----------------------------------------------------------------------------
(* What the queries leave alone, interval starts and bucket keys *)

SeriesOps == {"status_series", "revenue_series", "build_revenue_series"}

\* C21: a step that answers status_series_api, revenue_series_api or
\* build_revenue_series leaves the stored status events, the stored revenue
\* events, the games (row, status, floor plan), the location and the users
\* as they were.
C21_QueriesChangeNothing ==
    [][resp'.op \in SeriesOps =>
          /\ logs' = logs
          /\ revs' = revs
          /\ game' = game
          /\ gameStatus' = gameStatus
          /\ location' = location
          /\ grid' = grid
          /\ users' = users]_vars

\* a revenue series with a row for a stored token entry, which is still
\* stored as tokens
C21_Witness ==
    /\ resp.op = "revenue_series"
    /\ resp.code = 200
    /\ \E k \in 1..Len(resp.series) : resp.series[k].type = "tokens"
    /\ \E i \in 1..Len(revs) : revs[i].is_token
    /\ game.present

\* the sum of all buckets of the call
BinsTotal ==
    LET keys == SortedSeq(BucketStarts)
    IN  RatSum([k \in 1..Len(keys) |-> resp.bins[keys[k]]])

\* the part of the cash of all entries that falls inside the window
InWindowTotal == RatSum([i \in 1..Len(resp.entries) |-> InWindowCash(i)])

\* C22: while entry i is handled prev_time is, for the first entry, _prev_ts
\* when it is present and window.start otherwise, and for every later entry
\* the timestamp of the entry immediately before it, also when that entry's
\* clamped interval was empty; with daily and weekly buckets the amounts
\* distributed are the in-window parts of the intervals that start there.
C22_IntervalStartIsPreviousEvent ==
    IsBuilt =>
       /\ Len(resp.prev_times) = Len(resp.entries)
       /\ \A i \in 1..Len(resp.entries) :
             resp.prev_times[i] =
                IF i = 1
                THEN (IF resp.prev_ts # NoTime THEN resp.prev_ts ELSE resp.start)
                ELSE resp.entries[i - 1].timestamp
       /\ resp.granularity # "monthly" => BinsTotal = InWindowTotal

\* a first entry before the window, whose clamped interval is empty, and a
\* second one inside it: the second is spread from the timestamp of the
\* first, so only a part of its cash is inside the window
C22_Witness ==
    /\ IsBuilt
    /\ resp.granularity = "daily"
    /\ resp.prev_ts = NoTime
    /\ Len(resp.entries) = 2
    /\ resp.entries[1].timestamp < resp.start
    /\ ~Overlapping(1)
    /\ Overlapping(2)
    /\ resp.prev_times[2] = resp.entries[1].timestamp
    /\ BinsTotal # Zero
    /\ BinsTotal # Cash(2)

\* the values bin_cursor takes for entry i with a non-empty sub-interval
Cursors(i) ==
    LET first == _daterange_floor(ClampStart(i), resp.granularity)
    IN  {c \in {first + j * Width : j \in 0..MaxBins} :
           /\ c < ClampEnd(i)
           /\ Min(ClampEnd(i), c + Width) > Max(ClampStart(i), c)}

\* C23: for every granularity each bucket key computed while an interval is
\* distributed is the start of a seeded bucket, and of the seeded bucket
\* that contains the sub-interval; no in-window share is dropped.
C23_KeysAreSeededBuckets ==
    IsBuilt =>
       /\ \A i \in 1..Len(resp.entries) :
             Overlapping(i) =>
                \A c \in Cursors(i) :
                   LET key == _daterange_floor(c, resp.granularity)
                   IN  /\ key \in BucketStarts
                       /\ key <= Max(ClampStart(i), c)
                       /\ Min(ClampEnd(i), c + Width) <= key + Width
       /\ BinsTotal = InWindowTotal

----------------------------------------------------------------------------
(* Reports of faults and fixes *)

\* C24: after report_fault and report_fix requests, for a window that covers
\* all the log entries, status_series_api reports as total downtime the time
\* of the window during which the stored status was out_of_order (each entry
\* is in force from its timestamp to the next one, the last one to the end
\* of the window, and the stored status is the last entry's action), and as
\* total uptime the rest of the window.
C24_TotalDowntimeIsTimeOutOfOrder ==
    (/\ IsSeries
     /\ logs # <<>>
     /\ resp.start <= logs[1].timestamp
     /\ LastTs(logs) <= resp.end) =>
       LET out == OutSeconds(logs, resp.start, resp.end)
       IN  /\ resp.code = 200
           /\ gameStatus = logs[Len(logs)].action
           /\ resp.totals.downtime_hours = HoursRounded(out)
           /\ resp.totals.uptime_hours = HoursRounded((resp.end - resp.start) - out)

\* out_of_order, working, out_of_order again until the end of a window that
\* starts before the first report and ends after the last
C24_Witness ==
    /\ IsSeries
    /\ Len(logs) = 3
    /\ logs[1].action = "out_of_order"
    /\ logs[2].action = "working"
    /\ logs[3].action = "out_of_order"
    /\ logs[1].timestamp < logs[2].timestamp
    /\ resp.start < logs[1].timestamp
    /\ logs[3].timestamp < resp.end
    /\ gameStatus = "out_of_order"
    /\ resp.totals.downtime_hours > 0
    /\ resp.totals.uptime_hours > 0

\* C25: a report_fault or report_fix request of a logged-in user for a game
\* that exists appends exactly one LogEntry and leaves the stored status
\* equal to the action of that entry, the most recently appended one; a
\* request without a logged-in user or without such a game changes neither
\* the log entries nor the status.
C25_StatusFollowsLastEntry ==
    [][resp'.op \in {"report_fault", "report_fix"} =>
          IF resp'.user /\ game.present
          THEN /\ Len(logs') = Len(logs) + 1
               /\ SubSeq(logs', 1, Len(logs)) = logs
               /\ gameStatus' = logs'[Len(logs')].action
               /\ resp'.op = "report_fix" => gameStatus' = "working"
          ELSE /\ logs' = logs
               /\ gameStatus' = gameStatus]_vars

\* a fix reported by a user after a fault
C25_Witness ==
    /\ resp.op = "report_fix"
    /\ resp.user
    /\ Len(logs) >= 2
    /\ logs[Len(logs) - 1].action = "out_of_order"
    /\ logs[Len(logs)].action = "working"
    /\ gameStatus = "working"

\* C29: the downtime accumulated in a daily bucket never exceeds the overlap
\* of the bucket with the window, for any ascending list of events, events
\* with the same timestamp included; so the clamp max(window_seconds -
\* down_sec, 0) changes no value, and the same holds for the totals.
C29_DowntimeWithinBucket ==
    IsSeries =>
       LET down == SeqSum([i \in 1..Len(resp.daily) |-> resp.daily[i].down_sec])
       IN  /\ \A r \in Rows :
                /\ 0 <= r.down_sec
                /\ r.down_sec <= Overlap(r.t, r.t + Day, resp.start, resp.end)
                /\ r.up_sec = r.window_seconds - r.down_sec
           /\ down <= resp.end - resp.start
           /\ resp.totals.uptime_hours = HoursRounded((resp.end - resp.start) - down)

\* two events with the same timestamp, and a bucket that is down for all of
\* its part of the window
C29_Witness ==
    /\ IsSeries
    /\ \E i \in 1..(Len(logs) - 1) :
          /\ logs[i].timestamp = logs[i + 1].timestamp
          /\ resp.start <= logs[i].timestamp
          /\ logs[i].timestamp < resp.end
    /\ \E r \in Rows : r.down_sec = r.window_seconds /\ r.down_sec > 0

----------------------------------------------------------------------------
(* The floor plan *)

\* no two games of a location are on the same cell
NoSharedCell(g) ==
    \A a \in GameIds, b \in GameIds :
       (/\ a # b
        /\ g[a].present /\ g[b].present
        /\ g[a].location_id # NoLocationId
        /\ g[a].x # NoCoord /\ g[a].y # NoCoord) =>
          ~(/\ g[a].location_id = g[b].location_id
            /\ g[a].x = g[b].x
            /\ g[a].y = g[b].y)

IsMove == resp.op = "move_game"

\* C26: with requests handled one at a time, if no two games of a location
\* share a cell before a move_game request, none do after it, whether the
\* game moved to an empty cell, was swapped, stayed or the request was
\* rejected.
C26_MovesKeepCellsApart ==
    [][(resp'.op = "move_game" /\ NoSharedCell(grid)) => NoSharedCell(grid')]_vars

\* after a swap on a floor plan with three games, no cell is shared
C26_Witness ==
    /\ IsMove
    /\ resp.code = 200
    /\ ~resp.unchanged
    /\ resp.swapped.id # NoGameId
    /\ \A g \in GameIds : grid[g].present /\ grid[g].x # NoCoord
    /\ NoSharedCell(grid)

\* C27: two move_game requests in progress at the same time, for different
\* games and the same cell that each of them read as empty, never end with
\* both games on that cell.
C27_NeverBothOnTheCell ==
    \A r1 \in Requests, r2 \in Requests :
       LET m1 == moves[r1]
           m2 == moves[r2]
       IN  (/\ r1 # r2
            /\ m1.pc = "done" /\ m2.pc = "done"
            /\ m1.code = 200 /\ m2.code = 200
            /\ m1.game_id # m2.game_id
            /\ m1.x = m2.x /\ m1.y = m2.y
            /\ m1.game_id # NoGameId /\ m2.game_id # NoGameId
            /\ m1.occupant = NoGameId /\ m2.occupant = NoGameId) =>
              ~(/\ m1.game_id \in GamesAt(grid, LocationId, m1.x, m1.y)
                /\ m2.game_id \in GamesAt(grid, LocationId, m1.x, m1.y))

\* C28: a move_game request that is accepted names a cell of the grid; onto
\* a cell with an occupant it puts the moved game on the cell and the
\* occupant on the cell the moved game came from, onto an empty cell it
\* changes the position of the moved game only; the positions of the other
\* games and the location and status of every game stay as they were.  A
\* request that is rejected (401, 404, 400, 422) or names the cell the game
\* is on changes nothing.
C28_MoveChangesOnlyTheMoved ==
    [][resp'.op = "move_game" =>
          /\ UNCHANGED <<game, gameStatus, location, logs, revs, users>>
          /\ IF resp'.code # 200
             THEN resp'.code \in {400, 401, 404, 422} /\ grid' = grid
             ELSE IF resp'.unchanged
             THEN /\ grid' = grid
                  /\ grid[resp'.moved.id].x = resp'.moved.x
                  /\ grid[resp'.moved.id].y = resp'.moved.y
             ELSE LET a == resp'.moved.id
                      b == resp'.swapped.id
                      x == resp'.moved.x
                      y == resp'.moved.y
                  IN  /\ grid[a].present
                      /\ x \in 1..GridColumns /\ y \in 1..GridRows
                      /\ grid'[a] = [grid[a] EXCEPT !.x = x, !.y = y]
                      /\ IF b # NoGameId
                         THEN /\ b # a
                              /\ b \in GamesAt(grid, grid[a].location_id, x, y)
                              /\ grid'[b] = [grid[b] EXCEPT !.x = grid[a].x,
                                                            !.y = grid[a].y]
                         ELSE GamesAt(grid, grid[a].location_id, x, y) = {}
                      /\ \A g \in GameIds \ {a, b} : grid'[g] = grid[g]]_vars

\* a swap next to a third game: the moved game is on the cell it asked for,
\* the occupant on the cell the moved game came from
C28_Witness ==
    /\ IsMove
    /\ resp.code = 200
    /\ ~resp.unchanged
    /\ resp.swapped.id # NoGameId
    /\ grid[resp.moved.id].x = resp.moved.x
    /\ grid[resp.moved.id].y = resp.moved.y
    /\ grid[resp.swapped.id].x = resp.swapped.x
    /\ grid[resp.swapped.id].y = resp.swapped.y
    /\ resp.swapped.x # NoCoord
    /\ \E g \in GameIds \ {resp.moved.id, resp.swapped.id} : grid[g].present

----------------------------------------------------------------------------
(* The users *)

\* C30: after any sequence of save_new_user and save_user_changes requests,
\* starting from users with distinct PINs, no two users have the same PIN.
C30_DistinctPins ==
    \A u \in UserIds, v \in UserIds :
       (u # v /\ users[u].present /\ users[v].present) =>
          users[u].pin # users[v].pin

=============================================================================
